---- MODULE Spec2Model ----
(***************************************************************************)
(* next-js-scafold: the command-line action (src/index.ts), createProject  *)
(* (src/createProject.ts), the file generator (src/utils/fileGenerator.ts) *)
(* and the package manager helpers (src/utils/packageManager.ts).          *)
(*                                                                         *)
(* A string is a sequence of atoms.  An atom is a piece of text that the   *)
(* program never looks inside: "/" is the path separator, "{{" and "}}"    *)
(* are the braces of a placeholder, ".git" is the four characters that     *)
(* start ".gitignore".  Substring tests and replacements work on the       *)
(* sequence of atoms, so a match always starts and ends between atoms.     *)
(***************************************************************************)
EXTENDS Naturals, Sequences, FiniteSets, TLC

\* ------------------------------------------------------------------ bounds

\* The longest project name, in atoms, that is typed or passed.
MaxNameLen == 2

\* copyTemplates / generateFiles calls of the materializer-level specification.
MaxCalls == 3

\* Requests the generated request filter is given.
MaxRequests == 2

\* ----------------------------------------------------------------- strings

Sep == "/"
QUOTE == "\""
BSLASH == "\\"

\* The value of a JavaScript function that falls off its end.
Undefined == << "<undefined>" >>

\* String.prototype.includes
Includes(s, t) ==
    \E i \in 1..(Len(s) + 1) :
        /\ i + Len(t) - 1 <= Len(s)
        /\ SubSeq(s, i, i + Len(t) - 1) = t

StartsWith(s, t) == Len(t) <= Len(s) /\ SubSeq(s, 1, Len(t)) = t

\* String.prototype.replace with a global literal pattern: every occurrence,
\* left to right, and the inserted text is not scanned again.
RECURSIVE Replace(_, _, _)
Replace(s, tok, val) ==
    IF s = << >> THEN << >>
    ELSE IF StartsWith(s, tok)
         THEN val \o Replace(SubSeq(s, Len(tok) + 1, Len(s)), tok, val)
         ELSE << Head(s) >> \o Replace(Tail(s), tok, val)

IsSpace(a) == a = " "

\* String.prototype.trim
RECURSIVE TrimStart(_)
TrimStart(s) ==
    IF s # << >> /\ IsSpace(Head(s)) THEN TrimStart(Tail(s)) ELSE s

RECURSIVE TrimEnd(_)
TrimEnd(s) ==
    IF s # << >> /\ IsSpace(s[Len(s)]) THEN TrimEnd(SubSeq(s, 1, Len(s) - 1)) ELSE s

Trim(s) == TrimEnd(TrimStart(s))

\* JSON.stringify of a string: quoted, with quote and backslash escaped.
RECURSIVE JsonEscape(_)
JsonEscape(s) ==
    IF s = << >> THEN << >>
    ELSE (IF Head(s) \in {QUOTE, BSLASH} THEN << BSLASH, Head(s) >> ELSE << Head(s) >>)
         \o JsonEscape(Tail(s))

JsonStringifyString(s) == << QUOTE >> \o JsonEscape(s) \o << QUOTE >>

\* ------------------------------------------------------------------- paths

\* The components of a path: the pieces between separators.
RECURSIVE Components(_)
Components(p) ==
    IF p = << >> THEN << << >> >>
    ELSE LET rest == Components(Tail(p)) IN
         IF Head(p) = Sep THEN << << >> >> \o rest
         ELSE << << Head(p) >> \o Head(rest) >> \o Tail(rest)

\* path.normalize on the components: "" and "." dropped, ".." takes back one.
RECURSIVE Resolve(_, _)
Resolve(cs, acc) ==
    IF cs = << >> THEN acc
    ELSE IF Head(cs) \in { << >>, << "." >> } THEN Resolve(Tail(cs), acc)
    ELSE IF Head(cs) = << ".." >>
         THEN Resolve(Tail(cs), IF acc = << >> THEN acc ELSE SubSeq(acc, 1, Len(acc) - 1))
         ELSE Resolve(Tail(cs), Append(acc, Head(cs)))

RECURSIVE Glue(_)
Glue(cs) ==
    IF cs = << >> THEN << >>
    ELSE IF Len(cs) = 1 THEN Head(cs)
    ELSE Head(cs) \o << Sep >> \o Glue(Tail(cs))

Normalize(p) ==
    LET body == Glue(Resolve(Components(p), << >>)) IN
    IF p # << >> /\ Head(p) = Sep THEN << Sep >> \o body ELSE body

\* path.join
join(a, b) == Normalize(a \o << Sep >> \o b)

\* path.dirname
dirname(p) ==
    LET cs == Resolve(Components(p), << >>) IN
    IF Len(cs) <= 1 THEN (IF p # << >> /\ Head(p) = Sep THEN << Sep >> ELSE << "." >>)
    ELSE (IF Head(p) = Sep THEN << Sep >> ELSE << >>) \o Glue(SubSeq(cs, 1, Len(cs) - 1))

\* p is root or lies below it.
IsUnder(p, root) == p = root \/ StartsWith(p, root \o << Sep >>)

\* The directories from the file system's root down to p, p included.
AncestorsOrSelf(p) ==
    { SubSeq(p, 1, i) : i \in { j \in 1..Len(p) : j = Len(p) \/ p[j + 1] = Sep } }

\* ---------------------------------------------------------- packageManager

PackageManagers == { << "npm" >>, << "pnpm" >>, << "yarn" >>, << "bun" >> }

getInstallCommand(packageManager) ==
    CASE packageManager = << "npm" >> -> << "npm", " ", "install" >>
      [] packageManager = << "pnpm" >> -> << "pnpm", " ", "install" >>
      [] packageManager = << "yarn" >> -> << "yarn", " ", "install" >>
      [] packageManager = << "bun" >> -> << "bun", " ", "install" >>
      [] OTHER -> Undefined


\* getRunCommand with the yarn case left out.
getRunCommand_NoYarn(packageManager, script) ==
    CASE packageManager = << "npm" >> -> << "npm", " ", "run", " " >> \o script
      [] packageManager = << "pnpm" >> -> << "pnpm", " " >> \o script
      [] packageManager = << "bun" >> -> << "bun", " ", "run", " " >> \o script
      [] OTHER -> Undefined

getRunCommand(packageManager, script) ==
    CASE packageManager = << "npm" >> -> << "npm", " ", "run", " " >> \o script
      [] packageManager = << "pnpm" >> -> << "pnpm", " " >> \o script
      [] packageManager = << "yarn" >> -> << "yarn", " " >> \o script
      [] packageManager = << "bun" >> -> << "bun", " ", "run", " " >> \o script
      [] OTHER -> Undefined

\* ----------------------------------------------------------- fileGenerator

ProjectNameToken == << "{{", "projectName", "}}" >>
PackageManagerToken == << "{{", "packageManager", "}}" >>

\* A manifest entry whose content is a literal of the source with no
\* interpolation: one atom naming the literal.
Literal(path, text) == [path |-> path, content |-> << text >>]

PackageJsonContent(projectName) ==
    << "{", QUOTE, "name", QUOTE, ":" >> \o JsonStringifyString(projectName)
        \o << ",<package.json:113-146>}" >>

ReadmeContent(projectName, install, dev) ==
    << "# " >> \o projectName \o << "<README.md:249-256>" >> \o install
        \o << "<README.md:258-262>" >> \o dev \o << "<README.md:264-287>" >>

\* The install and dev commands getProjectStructure derives for the README.
installCmd(packageManager) ==
    IF packageManager = << "npm" >> THEN << "npm", " ", "install" >>
    ELSE IF packageManager = << "pnpm" >> THEN << "pnpm", " ", "install" >>
    ELSE IF packageManager = << "yarn" >> THEN << "yarn", " ", "install" >>
    ELSE << "bun", " ", "install" >>


\* devCmd giving every package manager the npm form "<pm> run dev".
devCmd_RunForAll(packageManager) ==
    IF packageManager = << "npm" >> THEN << "npm", " ", "run", " ", "dev" >>
    ELSE IF packageManager = << "pnpm" >> THEN << "pnpm", " ", "run", " ", "dev" >>
    ELSE IF packageManager = << "yarn" >> THEN << "yarn", " ", "run", " ", "dev" >>
    ELSE << "bun", " ", "run", " ", "dev" >>

devCmd(packageManager) ==
    IF packageManager = << "npm" >> THEN << "npm", " ", "run", " ", "dev" >>
    ELSE IF packageManager = << "pnpm" >> THEN << "pnpm", " ", "dev" >>
    ELSE IF packageManager = << "yarn" >> THEN << "yarn", " ", "dev" >>
    ELSE << "bun", " ", "run", " ", "dev" >>

getProjectStructure(variables) ==
    LET projectName == variables.projectName
        packageManager == variables.packageManager
    IN << [path |-> << "package.json" >>, content |-> PackageJsonContent(projectName)],
          Literal(<< "tsconfig.json" >>, "<tsconfig.json>"),
          Literal(<< "next.config.ts" >>, "<next.config.ts>"),
          Literal(<< "eslint.config.mjs" >>, "<eslint.config.mjs>"),
          Literal(<< "postcss.config.mjs" >>, "<postcss.config.mjs>"),
          [path |-> << "README.md" >>, content |-> ReadmeContent(projectName, installCmd(packageManager), devCmd(packageManager))],
          Literal(<< "src", Sep, "app", Sep, "layout.tsx" >>, "<layout.tsx>"),
          Literal(<< "src", Sep, "app", Sep, "providers.tsx" >>, "<providers.tsx>"),
          [path |-> << "src", Sep, "app", Sep, "page.tsx" >>,
           content |-> << "<page.tsx:349-371> style=", "{{", "<page.tsx:373-690>" >>],
          Literal(<< "src", Sep, "styles", Sep, "globals.css" >>, "<globals.css>"),
          Literal(<< "src", Sep, "config", Sep, "routes.ts" >>, "<routes.ts>"),
          Literal(<< "src", Sep, "config", Sep, ".env.example" >>, "<.env.example>"),
          Literal(<< "src", Sep, "proxy.ts" >>, "<proxy.ts>"),
          Literal(<< "src", Sep, "shared", Sep, "components", Sep, "CodeBlock.tsx" >>, "<CodeBlock.tsx>"),
          Literal(<< "src", Sep, "shared", Sep, "libs", Sep, "utils.ts" >>, "<utils.ts>"),
          Literal(<< "src", Sep, "shared", Sep, "libs", Sep, "api.service.ts" >>, "<api.service.ts>"),
          Literal(<< "src", Sep, "shared", Sep, "hooks", Sep, "useFormWithZod.ts" >>, "<useFormWithZod.ts>"),
          Literal(<< "src", Sep, "shared", Sep, "utils", Sep, "checkTokenExpiration.ts" >>, "<checkTokenExpiration.ts>"),
          Literal(<< "src", Sep, "features", Sep, "auth", Sep, "auth.type.ts" >>, "<auth.type.ts>"),
          Literal(<< "src", Sep, "features", Sep, "auth", Sep, "auth.api.ts" >>, "<auth.api.ts>"),
          Literal(<< "src", Sep, "features", Sep, "auth", Sep, "auth.service.ts" >>, "<auth.service.ts>"),
          Literal(<< "src", Sep, "features", Sep, "auth", Sep, "auth.validation.ts" >>, "<auth.validation.ts>"),
          Literal(<< "src", Sep, "features", Sep, "auth", Sep, "auth.store.ts" >>, "<auth.store.ts>"),
          Literal(<< "src", Sep, "features", Sep, "auth", Sep, "hooks", Sep, "useAuth.ts" >>, "<useAuth.ts>"),
          Literal(<< "src", Sep, "features", Sep, "auth", Sep, "components", Sep, "LoginForm.tsx" >>, "<LoginForm.tsx>"),
          Literal(<< ".git", "ignore" >>, "<.gitignore>"),
          Literal(<< "next-env.d.ts" >>, "<next-env.d.ts>") >>


\* emptyDirs with a directory that the manifest puts a file in.
emptyDirs_WithAuthHooks ==
    << << "src", Sep, "shared", Sep, "constants" >>,
       << "src", Sep, "shared", Sep, "types" >>,
       << "src", Sep, "shared", Sep, "components", Sep, "shadcnUi" >>,
       << "src", Sep, "stores" >>,
       << "src", Sep, "features", Sep, "auth", Sep, "hooks" >>,
       << "src", Sep, "tests", Sep, "e2e" >>,
       << "src", Sep, "tests", Sep, "unit" >> >>

\* emptyDirs without src/stores.
emptyDirs_NoStores ==
    << << "src", Sep, "shared", Sep, "constants" >>,
       << "src", Sep, "shared", Sep, "types" >>,
       << "src", Sep, "shared", Sep, "components", Sep, "shadcnUi" >>,
       << "src", Sep, "tests", Sep, "e2e" >>,
       << "src", Sep, "tests", Sep, "unit" >> >>

emptyDirs ==
    << << "src", Sep, "shared", Sep, "constants" >>,
       << "src", Sep, "shared", Sep, "types" >>,
       << "src", Sep, "shared", Sep, "components", Sep, "shadcnUi" >>,
       << "src", Sep, "stores" >>,
       << "src", Sep, "tests", Sep, "e2e" >>,
       << "src", Sep, "tests", Sep, "unit" >> >>

\* ------------------------------------------------------------- file system
\* A disk is [dirs: the directories that exist, files: path -> content].

existsSync(d, p) == p \in d.dirs \/ p \in DOMAIN d.files

\* fs-extra ensureDirSync: the directory and every missing ancestor.
ensureDirSync(d, p) == [d EXCEPT !.dirs = @ \cup AncestorsOrSelf(p)]


writeFileSync(d, p, content) ==
    [d EXCEPT !.files = (p :> content) @@ @]


\* A removal that takes the entry and leaves what is below it.
removeSync_Shallow(d, p) ==
    [dirs |-> d.dirs \ { p },
     files |-> [q \in DOMAIN d.files \ { p } |-> d.files[q]]]

\* fs-extra removeSync: the entry and everything below it.
removeSync(d, p) ==
    [dirs |-> { q \in d.dirs : ~IsUnder(q, p) },
     files |-> [q \in { r \in DOMAIN d.files : ~IsUnder(r, p) } |-> d.files[q]]]


\* The filter without its test for dist.
CopyFilter_NoDist(src) ==
    /\ ~Includes(src, << "node_modules" >>)
    /\ ~Includes(src, << ".git" >>)

\* The filter copyTemplates hands to copySync.
CopyFilter(src) ==
    /\ ~Includes(src, << "node_modules" >>)
    /\ ~Includes(src, << ".git" >>)
    /\ ~Includes(src, << "dist" >>)

\* fs-extra copySync(src, dest, {overwrite: true, filter}): the filter is asked
\* for src itself and then for every entry met on the way down; an entry it
\* refuses is not copied and not entered.
Copied(d, src, q) ==
    /\ IsUnder(q, src)
    /\ \A a \in AncestorsOrSelf(q) : IsUnder(a, src) => CopyFilter(a)

Rebase(q, src, dest) == dest \o SubSeq(q, Len(src) + 1, Len(q))

copySync(d, src, dest) ==
    LET cdirs == { q \in d.dirs : Copied(d, src, q) }
        cfiles == { q \in DOMAIN d.files : Copied(d, src, q) }
        target == { Rebase(q, src, dest) : q \in cfiles }
        from(t) == CHOOSE q \in cfiles : Rebase(q, src, dest) = t
    IN [dirs |-> d.dirs \cup { Rebase(q, src, dest) : q \in cdirs },
        files |-> [t \in target |-> d.files[from(t)]] @@ d.files]

\* The loop over emptyDirs: each directory is made (ensureDirSync) and an
\* empty .gitkeep written in it.
WriteEmptyDirs(d, targetPath, ds) ==
    LET dirPath == [i \in 1..Len(ds) |-> join(targetPath, ds[i])]
        keep == { join(dirPath[i], << ".git", "keep" >>) : i \in 1..Len(ds) }
    IN [dirs |-> d.dirs \cup UNION { AncestorsOrSelf(dirPath[i]) : i \in 1..Len(ds) },
        files |-> [p \in keep |-> << >>] @@ d.files]

\* The loop over the manifest with appendFileSync in the place of
\* writeFileSync: a file that is there keeps its content in front of the new.
WriteFiles_Appends(d, targetPath, structure) ==
    LET n == 1..Len(structure)
        filePath == [i \in n |-> join(targetPath, structure[i].path)]
        last(p) == CHOOSE i \in n : filePath[i] = p /\ \A j \in n : j > i => filePath[j] # p
        old(p) == IF p \in DOMAIN d.files THEN d.files[p] ELSE << >>
    IN [dirs |-> d.dirs \cup UNION { AncestorsOrSelf(dirname(filePath[i])) : i \in n },
        files |-> [p \in { filePath[i] : i \in n } |-> old(p) \o structure[last(p)].content]
                      @@ d.files]

\* The loop over the manifest: the parent directory of each entry is made
\* (ensureDirSync) and the file written over what is there (writeFileSync),
\* so a path written twice keeps the later content.
WriteFiles(d, targetPath, structure) ==
    LET n == 1..Len(structure)
        filePath == [i \in n |-> join(targetPath, structure[i].path)]
        last(p) == CHOOSE i \in n : filePath[i] = p /\ \A j \in n : j > i => filePath[j] # p
    IN [dirs |-> d.dirs \cup UNION { AncestorsOrSelf(dirname(filePath[i])) : i \in n },
        files |-> [p \in { filePath[i] : i \in n } |-> structure[last(p)].content] @@ d.files]

\* createProjectStructure without its loop over emptyDirs.
createProjectStructure_NoEmptyDirs(d, targetPath, variables) ==
    WriteFiles(ensureDirSync(d, join(targetPath, << "public" >>)), targetPath,
               getProjectStructure(variables))

createProjectStructure(d, targetPath, variables) ==
    LET structure == getProjectStructure(variables)
        d1 == WriteEmptyDirs(d, targetPath, emptyDirs)
        d2 == ensureDirSync(d1, join(targetPath, << "public" >>))
    IN WriteFiles(d2, targetPath, structure)

\* copyTemplates with the test of existsSync(templatesPath) turned round.
copyTemplates_Inverted(d, templatesPath, targetPath, variables) ==
    LET d1 == ensureDirSync(d, targetPath) IN
    IF ~existsSync(d1, templatesPath)
    THEN copySync(d1, templatesPath, targetPath)
    ELSE createProjectStructure(d1, targetPath, variables)

\* copyTemplates without the else: the manifest is written after the copy too.
copyTemplates_Both(d, templatesPath, targetPath, variables) ==
    LET d1 == ensureDirSync(d, targetPath)
        d2 == IF existsSync(d1, templatesPath) THEN copySync(d1, templatesPath, targetPath)
              ELSE d1
    IN createProjectStructure(d2, targetPath, variables)

copyTemplates(d, templatesPath, targetPath, variables) ==
    LET d1 == ensureDirSync(d, targetPath) IN
    IF existsSync(d1, templatesPath)
    THEN copySync(d1, templatesPath, targetPath)
    ELSE createProjectStructure(d1, targetPath, variables)

\* ReplaceInPackageJson without the test of existsSync: a missing file is
\* taken as empty and written.
ReplaceInPackageJson_NoExistsCheck(d, projectPath, variables) ==
    LET packageJsonPath == join(projectPath, << "package.json" >>)
        content == IF existsSync(d, packageJsonPath) THEN d.files[packageJsonPath] ELSE << >>
    IN writeFileSync(d, packageJsonPath,
                     Replace(content, ProjectNameToken, variables.projectName))

\* The first half of generateFiles: package.json, when it is there, is read,
\* {{projectName}} replaced and the file written back.
ReplaceInPackageJson(d, projectPath, variables) ==
    LET packageJsonPath == join(projectPath, << "package.json" >>) IN
    IF existsSync(d, packageJsonPath)
    THEN writeFileSync(d, packageJsonPath,
             Replace(d.files[packageJsonPath], ProjectNameToken, variables.projectName))
    ELSE d

\* generateFiles writing the README back with a line end added to it.
generateFiles_AddsNewline(d, projectPath, variables) ==
    LET d1 == ReplaceInPackageJson(d, projectPath, variables)
        readmePath == join(projectPath, << "README.md" >>)
    IN IF existsSync(d1, readmePath)
       THEN writeFileSync(d1, readmePath,
                Replace(Replace(d1.files[readmePath], ProjectNameToken, variables.projectName),
                        PackageManagerToken, variables.packageManager) \o << "\n" >>)
       ELSE d1

generateFiles(d, projectPath, variables) ==
    LET d1 == ReplaceInPackageJson(d, projectPath, variables)
        readmePath == join(projectPath, << "README.md" >>)
    IN IF existsSync(d1, readmePath)
       THEN writeFileSync(d1, readmePath,
                Replace(Replace(d1.files[readmePath], ProjectNameToken, variables.projectName),
                        PackageManagerToken, variables.packageManager))
       ELSE d1

\* detectPackageManager(): the lock files of the working directory in the
\* order bun, pnpm, yarn, npm, then the package managers that answer
\* "--version" in the order bun, pnpm, yarn, and npm when none does.
detectPackageManager(d, cwd, installed) ==
    IF existsSync(d, join(cwd, << "bun.lockb" >>)) THEN << "bun" >>
    ELSE IF existsSync(d, join(cwd, << "pnpm-lock.yaml" >>)) THEN << "pnpm" >>
    ELSE IF existsSync(d, join(cwd, << "yarn.lock" >>)) THEN << "yarn" >>
    ELSE IF existsSync(d, join(cwd, << "package-lock.json" >>)) THEN << "npm" >>
    ELSE IF << "bun" >> \in installed THEN << "bun" >>
    ELSE IF << "pnpm" >> \in installed THEN << "pnpm" >>
    ELSE IF << "yarn" >> \in installed THEN << "yarn" >>
    ELSE << "npm" >>

\* ------------------------------------------------------------- environment

VARIABLES
    pc,        \* where the run stands
    opt,       \* the command line: [yes, packageManager, projectName]
    env,       \* what the run finds: [pkgRoot, template, existing, lock, installed]
    tv,        \* [projectName, packageManager]: the values createProject gets
    disk,      \* the file system
    shown,     \* the prompts shown, with their answers
    out,       \* the console
    calls,     \* the file system and subprocess operations started, in order
    exitCode   \* "running", "0" or "1"

vars == << pc, opt, env, tv, disk, shown, out, calls, exitCode >>

\* process.cwd()
Cwd == << Sep, "work" >>

\* Where the package may be installed: a checkout, or a global npm install.
PkgRoots ==
    { << Sep, "opt", Sep, "next-js-scafold" >>,
      << Sep, "usr", Sep, "lib", Sep, "node_modules", Sep, "next-js-scafold" >> }

\* __dirname of the built createProject.js: bin/cli.js loads ../dist/index.js.
ModuleDir(pkgRoot) == join(pkgRoot, << "dist" >>)

TemplatesPath(pkgRoot) == join(ModuleDir(pkgRoot), << "..", Sep, "templates" >>)

\* The files a templates directory may hold, by their path below it.
TemplateFiles ==
    (<< "package.json" >> :>
        (<< "{", QUOTE, "name", QUOTE, ":", QUOTE >> \o ProjectNameToken
            \o << QUOTE, ",", QUOTE, "packageManager", QUOTE, ":", QUOTE >> \o PackageManagerToken
            \o << QUOTE, ",<template package.json>}" >>))
    @@ (<< "README.md" >> :>
        (<< "# " >> \o ProjectNameToken \o << "<run> " >> \o PackageManagerToken
            \o << " install <again> " >> \o ProjectNameToken
            \o << " <braces> ", "{{" >> \o ProjectNameToken))
    @@ (<< ".git", "ignore" >> :> << "<template .gitignore>" >>)
    @@ (<< ".git", "hub", Sep, "workflows", Sep, "ci.yml" >> :> << "<template ci.yml>" >>)
    @@ (<< "src", Sep, "dist", "ribution.ts" >> :> << "<template distribution.ts>" >>)
    @@ (<< "src", Sep, "app", Sep, "page.tsx" >> :> << "<template page.tsx>" >>)
    @@ (<< "node_modules", Sep, "react", Sep, "index.js" >> :> << "<template react>" >>)
    @@ (<< ".git", Sep, "config" >> :> << "<template git config>" >>)
    @@ (<< "dist", Sep, "index.js" >> :> << "<template build output>" >>)

\* "none": no templates directory; "empty": one with nothing in it; "full": one
\* with every file of TemplateFiles.
TemplateKinds == { "none", "empty", "full" }

ValidAtoms == { "demo", "-", "app" }

RECURSIVE SeqsUpTo(_, _)
SeqsUpTo(S, n) ==
    IF n = 0 THEN { << >> }
    ELSE LET shorter == SeqsUpTo(S, n - 1) IN
         shorter \cup { Append(s, a) : s \in shorter, a \in S }

\* Names of letters, digits and hyphens.
NameAtoms == { "app", "-" }
ValidNames == SeqsUpTo(NameAtoms, MaxNameLen) \ { << >> }

DefaultName == << "my-nextjs-app" >>
DemoApp == << "demo", "-", "app" >>

\* Names that are not of letters, digits and hyphens only.
OddNames ==
    { ProjectNameToken, PackageManagerToken, << "a", QUOTE, "b" >>, << "projectName", "}}" >> }

\* What may stand on the command line as the project name (<< >>: nothing).
ArgNames == { << >>, DemoApp } \cup ValidNames \cup OddNames

\* What may be typed at the project name prompt.
TypedNames ==
    { << >>, << " " >>, << " ", "demo", " " >>, << "demo", " ", "app" >>, DefaultName, DemoApp }
        \cup ValidNames \cup OddNames

\* What may follow -p (<< >>: the option is not given).
ArgPackageManagers == { << >>, << "foo" >> } \cup PackageManagers

\* A directory of the working directory that is there before the run.
ExistingNames == { << >>, DemoApp }

\* A lock file of the working directory (<< >>: none).
LockFiles == { << >>, << "yarn.lock" >> }

\* The package managers found on the machine: npm alone, or all four.
InstalledSets == { { << "npm" >> }, PackageManagers }

InitialDisk(e) ==
    LET root == TemplatesPath(e.pkgRoot)
        tfiles == IF e.template = "full" THEN DOMAIN TemplateFiles ELSE { }
        old == join(Cwd, e.existing)
        dirs0 == AncestorsOrSelf(Cwd) \cup AncestorsOrSelf(ModuleDir(e.pkgRoot))
        dirs1 == IF e.template = "none" THEN dirs0
                 ELSE dirs0 \cup UNION { AncestorsOrSelf(dirname(join(root, f))) : f \in tfiles }
                            \cup { root }
        files1 == [p \in { join(root, f) : f \in tfiles } |->
                      TemplateFiles[CHOOSE f \in tfiles : join(root, f) = p]]
        files2 == IF e.lock = << >> THEN files1
                  ELSE (join(Cwd, e.lock) :> << "<lock file>" >>) @@ files1
    IN IF e.existing = << >> THEN [dirs |-> dirs1, files |-> files2]
       ELSE [dirs |-> dirs1 \cup { old },
             files |-> (join(old, << "old.txt" >>) :> << "<old>" >>) @@ files2]

Envs ==
    { e \in [pkgRoot : PkgRoots, template : TemplateKinds, existing : ExistingNames,
             lock : LockFiles, installed : InstalledSets] :
        /\ e.template = "none" => e.pkgRoot = << Sep, "opt", Sep, "next-js-scafold" >>
        /\ e.lock # << >> => e.installed = PackageManagers }

projectPath == join(Cwd, tv.projectName)
templatesPath == TemplatesPath(env.pkgRoot)

\* The project tree: what the disk holds at the target and below.
Tree(d, root) ==
    [dirs |-> { q \in d.dirs : IsUnder(q, root) },
     files |-> [q \in { r \in DOMAIN d.files : IsUnder(r, root) } |-> d.files[q]]]

Call(op, d) == [op |-> op, tree |-> Tree(d, projectPath)]
Say(tag, text) == [tag |-> tag, text |-> text]

NoVariables == [projectName |-> << >>, packageManager |-> << >>]

Init ==
    /\ pc = "action"
    /\ opt \in [yes : BOOLEAN, packageManager : ArgPackageManagers, projectName : ArgNames]
    /\ env \in Envs
    /\ tv = NoVariables
    /\ disk = InitialDisk(env)
    /\ shown = << >>
    /\ out = << >>
    /\ calls = << >>
    /\ exitCode = "running"

\* ------------------------------------------------------------ program.action

\* /^[a-z0-9-]+$/i on the atoms: each is a run of letters, digits and hyphens.
WordAtoms == ValidAtoms \cup { "my-nextjs-app", "a", "b" }
MatchesNamePattern(s) == s # << >> /\ \A i \in 1..Len(s) : s[i] \in WordAtoms

\* The validate function of the project name prompt.
validate(input) == Trim(input) # << >> /\ MatchesNamePattern(Trim(input))

\* if (options.yes): both values from the command line or the defaults.
ActionYes ==
    /\ pc = "action"
    /\ opt.yes
    /\ tv' = [packageManager |-> IF opt.packageManager # << >> THEN opt.packageManager
                                 ELSE << "npm" >>,
              projectName |-> IF opt.projectName # << >> THEN opt.projectName
                              ELSE DefaultName]
    /\ pc' = "createProject"
    /\ UNCHANGED << opt, env, disk, shown, out, calls, exitCode >>

\* PromptPackageManager without the test of options.packageManager.
PromptPackageManager_Always ==
    /\ pc = "action"
    /\ ~opt.yes
    /\ \E answer \in PackageManagers :
        /\ tv' = [tv EXCEPT !.packageManager = answer]
        /\ shown' = Append(shown, [prompt |-> "packageManager", answer |-> answer])
    /\ pc' = "projectName"
    /\ UNCHANGED << opt, env, disk, out, calls, exitCode >>

\* The package manager list prompt, shown when -p is not given.
PromptPackageManager ==
    /\ pc = "action"
    /\ ~opt.yes
    /\ opt.packageManager = << >>
    /\ \E answer \in PackageManagers :
        /\ tv' = [tv EXCEPT !.packageManager = answer]
        /\ shown' = Append(shown, [prompt |-> "packageManager", answer |-> answer])
    /\ pc' = "projectName"
    /\ UNCHANGED << opt, env, disk, out, calls, exitCode >>

TakePackageManagerOption ==
    /\ pc = "action"
    /\ ~opt.yes
    /\ opt.packageManager # << >>
    /\ tv' = [tv EXCEPT !.packageManager = opt.packageManager]
    /\ pc' = "projectName"
    /\ UNCHANGED << opt, env, disk, shown, out, calls, exitCode >>

\* The project name prompt, shown when no name is given; it asks again until
\* validate accepts the input.
PromptProjectName ==
    /\ pc = "projectName"
    /\ opt.projectName = << >>
    /\ \E input \in TypedNames :
        IF validate(input)
        THEN /\ tv' = [tv EXCEPT !.projectName = Trim(input)]
             /\ shown' = Append(shown, [prompt |-> "projectName", answer |-> input])
             /\ pc' = "createProject"
        ELSE UNCHANGED << tv, shown, pc >>
    /\ UNCHANGED << opt, env, disk, out, calls, exitCode >>

TakeProjectNameArgument ==
    /\ pc = "projectName"
    /\ opt.projectName # << >>
    /\ tv' = [tv EXCEPT !.projectName = opt.projectName]
    /\ pc' = "createProject"
    /\ UNCHANGED << opt, env, disk, shown, out, calls, exitCode >>

\* ------------------------------------------------------------- createProject

skipPrompts == opt.yes
autoInstall == ~opt.yes

\* The catch of program.action: the error is printed and the process exits 1.
ActionCatch(o) == Append(o, Say("Error creating project:", << >>))

\* The catch of createProject: message and stack are printed, the error is
\* thrown again.
CreateProjectCatch(o) ==
    Append(Append(o, Say("Error creating project:", << >>)), Say("error.stack", << >>))


\* CheckExisting without the return after "Cancelled.".
CheckExisting_NoReturn ==
    /\ pc = "createProject"
    /\ IF ~existsSync(disk, projectPath)
       THEN /\ pc' = "copyTemplates"
            /\ UNCHANGED << shown, out >>
       ELSE IF skipPrompts
       THEN /\ pc' = "removeSync"
            /\ UNCHANGED << shown, out >>
       ELSE \E overwrite \in BOOLEAN :
            /\ shown' = Append(shown, [prompt |-> "overwrite", answer |-> overwrite])
            /\ out' = IF overwrite THEN out ELSE Append(out, Say("Cancelled.", << >>))
            /\ pc' = "removeSync"
    /\ UNCHANGED << opt, env, tv, disk, calls, exitCode >>

\* CheckExisting without the test of skipPrompts: the overwrite prompt is
\* shown whenever the target exists.
CheckExisting_AlwaysAsks ==
    /\ pc = "createProject"
    /\ IF ~existsSync(disk, projectPath)
       THEN /\ pc' = "copyTemplates"
            /\ UNCHANGED << shown, out, exitCode >>
       ELSE \E overwrite \in BOOLEAN :
            /\ shown' = Append(shown, [prompt |-> "overwrite", answer |-> overwrite])
            /\ IF overwrite
               THEN /\ pc' = "removeSync"
                    /\ UNCHANGED << out, exitCode >>
               ELSE /\ out' = Append(out, Say("Cancelled.", << >>))
                    /\ pc' = "done"
                    /\ exitCode' = "0"
    /\ UNCHANGED << opt, env, tv, disk, calls >>

\* if (existsSync(projectPath)), and the overwrite prompt when it is shown.
CheckExisting ==
    /\ pc = "createProject"
    /\ IF ~existsSync(disk, projectPath)
       THEN /\ pc' = "copyTemplates"
            /\ UNCHANGED << shown, out, exitCode >>
       ELSE IF skipPrompts
       THEN /\ pc' = "removeSync"
            /\ UNCHANGED << shown, out, exitCode >>
       ELSE \E overwrite \in BOOLEAN :
            /\ shown' = Append(shown, [prompt |-> "overwrite", answer |-> overwrite])
            /\ IF overwrite
               THEN /\ pc' = "removeSync"
                    /\ UNCHANGED << out, exitCode >>
               ELSE /\ out' = Append(out, Say("Cancelled.", << >>))
                    /\ pc' = "done"
                    /\ exitCode' = "0"
    /\ UNCHANGED << opt, env, tv, disk, calls >>

\* RemoveExisting reporting the removal without doing it.
RemoveExisting_KeepsFiles ==
    /\ pc = "removeSync"
    /\ calls' = Append(calls, Call("removeSync", disk))
    /\ out' = Append(out, Say("Directory removed", << >>))
    /\ pc' = "copyTemplates"
    /\ UNCHANGED << opt, env, tv, disk, shown, exitCode >>

RemoveExisting ==
    /\ pc = "removeSync"
    /\ disk' = removeSync(disk, projectPath)
    /\ calls' = Append(calls, Call("removeSync", disk'))
    /\ out' = Append(out, Say("Directory removed", << >>))
    /\ pc' = "copyTemplates"
    /\ UNCHANGED << opt, env, tv, shown, exitCode >>

\* removeSync throws: it stands outside the try of createProject.
RemoveFails ==
    /\ pc = "removeSync"
    /\ calls' = Append(calls, Call("removeSync", disk))
    /\ out' = ActionCatch(out)
    /\ pc' = "done"
    /\ exitCode' = "1"
    /\ UNCHANGED << opt, env, tv, disk, shown >>

\* CopyTemplates followed at once by the steps after generateFiles: the
\* substitution pass is left out and success is reported without it.
CopyTemplates_SkipsGenerate ==
    /\ pc = "copyTemplates"
    /\ disk' = copyTemplates(disk, templatesPath, projectPath, tv)
    /\ calls' = Append(calls, Call("copyTemplates", disk'))
    /\ out' = Append(Append(out, Say("Project structure created", << >>)),
                     Say("Project created successfully!", << >>))
    /\ pc' = IF autoInstall THEN "execSync" ELSE "nextSteps"
    /\ UNCHANGED << opt, env, tv, shown, exitCode >>

CopyTemplates ==
    /\ pc = "copyTemplates"
    /\ disk' = copyTemplates(disk, templatesPath, projectPath, tv)
    /\ calls' = Append(calls, Call("copyTemplates", disk'))
    /\ out' = Append(out, Say("Project structure created", << >>))
    /\ pc' = "generateFiles"
    /\ UNCHANGED << opt, env, tv, shown, exitCode >>

\* A file system error inside copyTemplates: what was written stays.
CopyTemplatesFails ==
    /\ pc = "copyTemplates"
    /\ \E d \in { disk,
                  ensureDirSync(disk, projectPath),
                  WriteEmptyDirs(ensureDirSync(disk, projectPath), projectPath, emptyDirs) } :
        /\ (d # disk /\ d # ensureDirSync(disk, projectPath)) => ~existsSync(disk, templatesPath)
        /\ disk' = d
    /\ calls' = Append(calls, Call("copyTemplates", disk'))
    /\ out' = ActionCatch(CreateProjectCatch(out))
    /\ pc' = "done"
    /\ exitCode' = "1"
    /\ UNCHANGED << opt, env, tv, shown >>

GenerateFiles ==
    /\ pc = "generateFiles"
    /\ disk' = generateFiles(disk, projectPath, tv)
    /\ calls' = Append(calls, Call("generateFiles", disk'))
    /\ out' = Append(Append(out, Say("Files generated", << >>)),
                     Say("Project created successfully!", << >>))
    /\ pc' = IF autoInstall THEN "execSync" ELSE "nextSteps"
    /\ UNCHANGED << opt, env, tv, shown, exitCode >>

\* GenerateFilesFails with a catch in createProject that does not throw the
\* error again: the action ends as if nothing had happened.
GenerateFilesFails_NotRethrown ==
    /\ pc = "generateFiles"
    /\ disk' \in { disk, ReplaceInPackageJson(disk, projectPath, tv) }
    /\ calls' = Append(calls, Call("generateFiles", disk'))
    /\ out' = CreateProjectCatch(out)
    /\ pc' = "done"
    /\ exitCode' = "0"
    /\ UNCHANGED << opt, env, tv, shown >>

\* A file system error inside generateFiles: at its first read or write, or
\* at the README after package.json was written back.
GenerateFilesFails ==
    /\ pc = "generateFiles"
    /\ disk' \in { disk, ReplaceInPackageJson(disk, projectPath, tv) }
    /\ calls' = Append(calls, Call("generateFiles", disk'))
    /\ out' = ActionCatch(CreateProjectCatch(out))
    /\ pc' = "done"
    /\ exitCode' = "1"
    /\ UNCHANGED << opt, env, tv, shown >>

\* What the package manager leaves in the project when the install succeeds.
Installed(d, root) ==
    writeFileSync(ensureDirSync(d, join(root, << "node_modules" >>)),
                  join(root, << "<lockfile>" >>), << "<lock>" >>)

\* execSync(installCmd) ends well; there is nothing to run when the command
\* is undefined or the package manager is not on the machine.
InstallSucceeds ==
    /\ pc = "execSync"
    /\ getInstallCommand(tv.packageManager) # Undefined
    /\ tv.packageManager \in env.installed
    /\ disk' = Installed(disk, projectPath)
    /\ calls' = Append(calls, Call("execSync", disk'))
    /\ out' = Append(out, Say("Dependencies installed", << >>))
    /\ pc' = "nextSteps"
    /\ UNCHANGED << opt, env, tv, shown, exitCode >>

\* InstallFails with the install tried again after a failure.
InstallFails_Retries ==
    /\ pc = "execSync"
    /\ calls' = Append(calls, Call("execSync", disk))
    /\ out' = Append(out, Say("Dependencies installation failed", << >>))
    /\ pc' = "execSync"
    /\ UNCHANGED << opt, env, tv, disk, shown, exitCode >>

\* InstallFails without the inner try: the error reaches the catch of
\* createProject and then the one of program.action.
InstallFails_Rethrows ==
    /\ pc = "execSync"
    /\ calls' = Append(calls, Call("execSync", disk))
    /\ out' = ActionCatch(CreateProjectCatch(
                  Append(out, Say("Dependencies installation failed", << >>))))
    /\ pc' = "done"
    /\ exitCode' = "1"
    /\ UNCHANGED << opt, env, tv, disk, shown >>

\* execSync throws: the inner catch prints the command to run by hand.
InstallFails ==
    /\ pc = "execSync"
    /\ calls' = Append(calls, Call("execSync", disk))
    /\ out' = Append(Append(out, Say("Dependencies installation failed", << >>)),
                     Say("Run:", getInstallCommand(tv.packageManager)))
    /\ pc' = "nextSteps"
    /\ UNCHANGED << opt, env, tv, disk, shown, exitCode >>

\* NextStepsText with the install line printed whatever autoInstall is.
NextStepsText_AlwaysInstall ==
    << Say("Ready to start coding!", << >>), Say("Next steps:", << >>), Say("cd", tv.projectName),
       Say("install", getInstallCommand(tv.packageManager)),
       Say("run", getRunCommand(tv.packageManager, << "dev" >>)) >>

NextStepsText ==
    << Say("Ready to start coding!", << >>), Say("Next steps:", << >>), Say("cd", tv.projectName) >>
        \o (IF ~autoInstall THEN << Say("install", getInstallCommand(tv.packageManager)) >> ELSE << >>)
        \o << Say("run", getRunCommand(tv.packageManager, << "dev" >>)) >>

NextSteps ==
    /\ pc = "nextSteps"
    /\ out' = out \o NextStepsText
    /\ pc' = "done"
    /\ exitCode' = "0"
    /\ UNCHANGED << opt, env, tv, disk, shown, calls >>

Next ==
    \/ ActionYes
    \/ PromptPackageManager
    \/ TakePackageManagerOption
    \/ PromptProjectName
    \/ TakeProjectNameArgument
    \/ CheckExisting
    \/ RemoveExisting
    \/ RemoveFails
    \/ CopyTemplates
    \/ CopyTemplatesFails
    \/ GenerateFiles
    \/ GenerateFilesFails
    \/ InstallSucceeds
    \/ InstallFails
    \/ NextSteps

Spec == Init /\ [][Next]_vars

\* ------------------------------------------------- the file generator alone
\* copyTemplates and generateFiles called directly, in any order, on a target
\* that is not there at first, with any TemplateVariables.

MatInit ==
    /\ pc = "fileGenerator"
    /\ opt = [yes |-> TRUE, packageManager |-> << >>, projectName |-> << >>]
    /\ env \in { e \in Envs : e.existing = << >> /\ e.lock = << >> /\ e.installed = PackageManagers }
    /\ tv \in [projectName : ArgNames \ { << >> }, packageManager : ArgPackageManagers \ { << >> }]
    /\ disk = InitialDisk(env)
    /\ shown = << >>
    /\ out = << >>
    /\ calls = << >>
    /\ exitCode = "running"

MatCopyTemplates ==
    /\ pc = "fileGenerator"
    /\ Len(calls) < MaxCalls
    /\ disk' = copyTemplates(disk, templatesPath, projectPath, tv)
    /\ calls' = Append(calls, Call("copyTemplates", disk'))
    /\ UNCHANGED << pc, opt, env, tv, shown, out, exitCode >>

MatGenerateFiles ==
    /\ pc = "fileGenerator"
    /\ Len(calls) < MaxCalls
    /\ disk' = generateFiles(disk, projectPath, tv)
    /\ calls' = Append(calls, Call("generateFiles", disk'))
    /\ UNCHANGED << pc, opt, env, tv, shown, out, exitCode >>

MatNext == MatCopyTemplates \/ MatGenerateFiles

SpecMat == MatInit /\ [][MatNext]_vars

\* ------------------------------------------- the generated src/proxy.ts
\* The request filter of a created project, as the manifest writes it, given
\* requests one after the other.  A request is a pathname and the value of the
\* session cookie (<< >>: no cookie, or an empty one).

publicRoutes ==
    { << Sep, "login" >>, << Sep, "register" >>, << Sep, "forgot-password" >>,
      << Sep, "processing" >> }

\* The session tokens a request may carry: one that is still good and one
\* whose time is over.
FreshToken == << "<token: expires tomorrow>" >>
StaleToken == << "<token: expired yesterday>" >>

Pathnames == publicRoutes \cup { << Sep >>, << Sep, "dashboard" >> }
CookieValues == { << >>, FreshToken, StaleToken }

\* checkTokenExpiration of src/shared/utils/checkTokenExpiration.ts.
checkTokenExpiration(token) == IF token = << >> THEN FALSE ELSE TRUE

\* proxy(request): "next", or the path the request is redirected to.
proxy(pathname, sessionValue) ==
    LET isTokenExpired == checkTokenExpiration(sessionValue)
        hasValidSession == sessionValue # << >> /\ ~isTokenExpired
    IN IF pathname \in publicRoutes
       THEN (IF hasValidSession THEN << "redirect", Sep >> ELSE << "next" >>)
       ELSE IF ~hasValidSession THEN << "redirect", Sep, "login" >>
       ELSE << "next" >>

\* A project created from the manifest by "next-js-scafold demo-app -p npm -y".
ProxyInit ==
    /\ pc = "proxy"
    /\ opt = [yes |-> TRUE, packageManager |-> << "npm" >>, projectName |-> DemoApp]
    /\ env = [pkgRoot |-> << Sep, "opt", Sep, "next-js-scafold" >>, template |-> "none",
              existing |-> << >>, lock |-> << >>, installed |-> PackageManagers]
    /\ tv = [projectName |-> DemoApp, packageManager |-> << "npm" >>]
    /\ disk = generateFiles(copyTemplates(InitialDisk(env), templatesPath, projectPath, tv),
                            projectPath, tv)
    /\ shown = << >>
    /\ out = << >>
    /\ calls = << >>
    /\ exitCode = "0"

\* A request comes in and the filter answers it.
ProxyRequest ==
    /\ pc = "proxy"
    /\ Len(out) < MaxRequests
    /\ join(projectPath, << "src", Sep, "proxy.ts" >>) \in DOMAIN disk.files
    /\ \E pathname \in Pathnames, sessionValue \in CookieValues :
        out' = Append(out, [tag |-> "proxy", pathname |-> pathname, cookie |-> sessionValue,
                            text |-> proxy(pathname, sessionValue)])
    /\ UNCHANGED << pc, opt, env, tv, disk, shown, calls, exitCode >>

ProxyNext == ProxyRequest

SpecProxy == ProxyInit /\ [][ProxyNext]_vars

\* ------------------------------------------------------------------ claims

\* JSON.parse of a string literal that starts at s[1] (the opening quote):
\* the text up to the first quote that is not escaped.
RECURSIVE JsonUnescape(_)
JsonUnescape(s) ==
    IF s = << >> THEN << >>
    ELSE IF Head(s) = QUOTE THEN << >>
    ELSE IF Head(s) = BSLASH /\ Len(s) >= 2
         THEN << s[2] >> \o JsonUnescape(SubSeq(s, 3, Len(s)))
         ELSE << Head(s) >> \o JsonUnescape(Tail(s))

JsonParseString(s) ==
    IF s # << >> /\ Head(s) = QUOTE THEN JsonUnescape(Tail(s)) ELSE Undefined

\* JSON.parse(content).name for the package.json the program writes.
PackageJsonName(content) ==
    IF StartsWith(content, << "{", QUOTE, "name", QUOTE, ":" >>)
    THEN JsonParseString(SubSeq(content, 6, Len(content)))
    ELSE Undefined

Declined == \E i \in DOMAIN shown : shown[i].prompt = "overwrite" /\ ~shown[i].answer
Confirmed == \E i \in DOMAIN shown : shown[i].prompt = "overwrite" /\ shown[i].answer
Started(op) == \E i \in DOMAIN calls : calls[i].op = op
NoTree(d, root) == Tree(d, root).dirs = { } /\ DOMAIN Tree(d, root).files = { }

\* C1: when the target directory exists, prompts are not skipped and the
\* overwrite confirmation is declined, the file system is as it was before the
\* run, no removal, materialization, substitution or install was started, and
\* the run has ended with exit code 0.
C1_DeclineChangesNothing ==
    Declined =>
        /\ disk = InitialDisk(env)
        /\ calls = << >>
        /\ pc = "done"
        /\ exitCode = "0"

C1_Witness ==
    /\ Declined
    /\ ~opt.yes
    /\ existsSync(disk, projectPath)
    /\ join(projectPath, << "old.txt" >>) \in DOMAIN disk.files
    /\ exitCode = "0"

\* C2: a value after -p that is none of npm, pnpm, yarn, bun is answered by a
\* configuration error before the file system is touched: with such a value
\* no file system operation is ever started and the disk stays as it was.
C2_UnknownPackageManagerTouchesNothing ==
    (opt.packageManager \notin PackageManagers \cup { << >> }) =>
        /\ calls = << >>
        /\ disk = InitialDisk(env)

\* C3: an existing target is never merged into: when copyTemplates is about
\* to start nothing exists at the target path, and a removal was started only
\* with -y or after the overwrite confirmation was answered yes.
C3_NeverMerged ==
    /\ pc = "copyTemplates" => NoTree(disk, projectPath)
    /\ Started("removeSync") => (skipPrompts \/ Confirmed)

C3_Witness ==
    /\ pc = "copyTemplates"
    /\ env.existing # << >>
    /\ Started("removeSync")
    /\ ~opt.yes
    /\ join(projectPath, << "old.txt" >>) \in DOMAIN InitialDisk(env).files

\* The run of the scenario: demo-app, pnpm, no -y, no directory in the way,
\* ended with exit code 0.
DemoRun ==
    /\ ~opt.yes
    /\ tv = [projectName |-> DemoApp, packageManager |-> << "pnpm" >>]
    /\ env.existing = << >>
    /\ pc = "done"
    /\ exitCode = "0"

HasPlaceholder(d, root, dir) ==
    /\ join(root, dir) \in d.dirs
    /\ join(join(root, dir), << ".git", "keep" >>) \in DOMAIN d.files

DemoTree ==
    LET packageJson == join(projectPath, << "package.json" >>)
        readme == join(projectPath, << "README.md" >>)
    IN /\ packageJson \in DOMAIN disk.files
       /\ PackageJsonName(disk.files[packageJson]) = DemoApp
       /\ readme \in DOMAIN disk.files
       /\ Includes(disk.files[readme], << "pnpm", " ", "install" >>)
       /\ Includes(disk.files[readme], << "pnpm", " ", "dev" >>)
       /\ HasPlaceholder(disk, projectPath, << "src", Sep, "shared", Sep, "constants" >>)
       /\ HasPlaceholder(disk, projectPath, << "src", Sep, "stores" >>)
       /\ HasPlaceholder(disk, projectPath, << "src", Sep, "tests", Sep, "e2e" >>)

\* C4 as stated: the demo-app / pnpm run leaves package.json named demo-app,
\* a README.md with "pnpm install" and "pnpm dev", and the three directories
\* with their placeholder files.
C4_DemoScenario_AsStated == DemoRun => DemoTree

\* C4, amended: the same, when no templates directory stands beside the
\* installed program, so that the tree is written from the manifest.
C4_DemoScenario == (DemoRun /\ env.template = "none") => DemoTree

C4_Witness ==
    /\ DemoRun
    /\ env.template = "none"
    /\ Len(shown) = 2
    /\ DemoTree

\* TemplateVariables as the data model has them.
ValidVariables(v) ==
    /\ MatchesNamePattern(v.projectName)
    /\ v.packageManager \in PackageManagers

Entry(structure, path) ==
    structure[CHOOSE i \in DOMAIN structure : structure[i].path = path].content

\* C5: for valid TemplateVariables the package.json entry of
\* getProjectStructure parses to the project name, and its README.md entry
\* holds, in its two command blocks, getInstallCommand(packageManager) and
\* getRunCommand(packageManager, 'dev').
C5_ManifestEmbedsNameAndCommands ==
    ValidVariables(tv) =>
        LET structure == getProjectStructure(tv) IN
        /\ PackageJsonName(Entry(structure, << "package.json" >>)) = tv.projectName
        /\ Includes(Entry(structure, << "README.md" >>),
                    << "<README.md:249-256>" >> \o getInstallCommand(tv.packageManager)
                        \o << "<README.md:258-262>" >>
                        \o getRunCommand(tv.packageManager, << "dev" >>)
                        \o << "<README.md:264-287>" >>)

C5_Witness ==
    /\ ValidVariables(tv)
    /\ tv.packageManager = << "yarn" >>
    /\ env.template = "none"
    /\ calls # << >>
    /\ calls[1].op = "copyTemplates"
    /\ disk.files[join(projectPath, << "README.md" >>)]
           = Entry(getProjectStructure(tv), << "README.md" >>)

Printed(tag) == { out[i].text : i \in { j \in DOMAIN out : out[j].tag = tag } }

\* C6: for the four package managers getInstallCommand and getRunCommand give
\* a command (never undefined, never empty), no two package managers share an
\* install command or a run command, pnpm gives "pnpm install" and "pnpm dev",
\* and so every command a run with one of the four prints is a command.
C6_CommandsTotalAndDistinct ==
    /\ \A p \in PackageManagers :
        /\ getInstallCommand(p) \notin { Undefined, << >> }
        /\ getRunCommand(p, << "dev" >>) \notin { Undefined, << >> }
        /\ \A q \in PackageManagers \ { p } :
            /\ getInstallCommand(p) # getInstallCommand(q)
            /\ getRunCommand(p, << "dev" >>) # getRunCommand(q, << "dev" >>)
    /\ getInstallCommand(<< "pnpm" >>) = << "pnpm", " ", "install" >>
    /\ getRunCommand(<< "pnpm" >>, << "dev" >>) = << "pnpm", " ", "dev" >>
    /\ tv.packageManager \in PackageManagers =>
        \A c \in Printed("run") \cup Printed("install") \cup Printed("Run:") :
            c \notin { Undefined, << >> }

C6_Witness ==
    /\ pc = "done"
    /\ opt.yes
    /\ << "pnpm", " ", "dev" >> \in Printed("run")
    /\ << "pnpm", " ", "install" >> \in Printed("install")

\* Materialization and substitution have both run to their end.
Generated ==
    /\ Started("generateFiles")
    /\ ~(pc = "done" /\ exitCode = "1")

\* C7: after materialization from the manifest and the substitution pass,
\* package.json parses to the supplied project name and no file of the tree
\* holds {{projectName}} or {{packageManager}}.
C7_RoundTrip ==
    (Generated /\ env.template = "none") =>
        LET tree == Tree(disk, projectPath) IN
        /\ PackageJsonName(tree.files[join(projectPath, << "package.json" >>)]) = tv.projectName
        /\ \A f \in DOMAIN tree.files :
            /\ ~Includes(tree.files[f], ProjectNameToken)
            /\ ~Includes(tree.files[f], PackageManagerToken)

\* C8: copyTemplates called twice in a row on a target that was not there
\* leaves after the second call the tree it left after the first: the same
\* directories, the same files, the same contents.
C8_CopyTwiceSameTree ==
    \A i \in 1..(Len(calls) - 1) :
        (calls[i].op = "copyTemplates" /\ calls[i + 1].op = "copyTemplates")
            => calls[i + 1].tree = calls[i].tree

C8_Witness ==
    /\ Len(calls) >= 2
    /\ calls[1].op = "copyTemplates"
    /\ calls[2].op = "copyTemplates"
    /\ env.template = "none"
    /\ join(projectPath, << "README.md" >>) \in DOMAIN calls[2].tree.files

\* The names copyTemplates is to leave out.
ExcludedNames == { << "node_modules" >>, << ".git" >>, << "dist" >> }

HasExcludedComponent(rel) ==
    \E i \in DOMAIN Components(rel) : Components(rel)[i] \in ExcludedNames

\* The entries of the templates directory, by their path below it.
TemplateEntries ==
    LET t == Tree(InitialDisk(env), templatesPath) IN
    { SubSeq(q, Len(templatesPath) + 2, Len(q)) : q \in (t.dirs \cup DOMAIN t.files) \ { templatesPath } }

InTree(t, p) == p \in t.dirs \/ p \in DOMAIN t.files

\* C9: when the templates directory holds node_modules, .git and dist, the
\* tree copyTemplates leaves holds nothing that lies in one of the three.
C9_ExcludedFoldersNotCopied ==
    \A i \in DOMAIN calls :
        (calls[i].op = "copyTemplates" /\ env.template = "full") =>
            \A rel \in TemplateEntries :
                HasExcludedComponent(rel) => ~InTree(calls[i].tree, join(projectPath, rel))

C9_Witness ==
    /\ calls # << >>
    /\ calls[1].op = "copyTemplates"
    /\ env.template = "full"
    /\ << "dist", Sep, "index.js" >> \in TemplateEntries
    /\ << ".git", Sep, "config" >> \in TemplateEntries
    /\ << "node_modules", Sep, "react", Sep, "index.js" >> \in TemplateEntries
    /\ InTree(calls[1].tree, join(projectPath, << "package.json" >>))

\* C10: on the template branch every file of the templates directory with no
\* path component named node_modules, .git or dist is in the tree copyTemplates
\* leaves, with its content, wherever the package is installed.
C10_OnlyExcludedLeftOut ==
    \A i \in DOMAIN calls :
        (calls[i].op = "copyTemplates" /\ env.template # "none") =>
            \A rel \in TemplateEntries :
                (join(templatesPath, rel) \in DOMAIN disk.files /\ ~HasExcludedComponent(rel)) =>
                    /\ join(projectPath, rel) \in DOMAIN calls[i].tree.files
                    /\ calls[i].tree.files[join(projectPath, rel)]
                           = disk.files[join(templatesPath, rel)]

\* The tree t holds the manifest of getProjectStructure(v) below root, each
\* file with the manifest's content, and every directory of emptyDirs.
HoldsManifest(t, root, v) ==
    LET structure == getProjectStructure(v) IN
    /\ \A i \in DOMAIN structure :
        /\ join(root, structure[i].path) \in DOMAIN t.files
        /\ t.files[join(root, structure[i].path)] = structure[i].content
    /\ \A i \in DOMAIN emptyDirs : join(root, emptyDirs[i]) \in t.dirs

\* C11 as stated: after every copyTemplates call, on either branch, the tree
\* holds every manifest path with the manifest content and every empty
\* directory of the list.
C11_ManifestMaterialized_AsStated ==
    \A i \in DOMAIN calls :
        calls[i].op = "copyTemplates" => HoldsManifest(calls[i].tree, projectPath, tv)

\* C11, amended: the same after a copyTemplates call that took the manifest
\* branch (no templates directory exists).
C11_ManifestMaterialized ==
    \A i \in DOMAIN calls :
        (calls[i].op = "copyTemplates" /\ env.template = "none")
            => HoldsManifest(calls[i].tree, projectPath, tv)

C11_Witness ==
    /\ env.template = "none"
    /\ Len(calls) >= 2
    /\ calls[1].op = "generateFiles"
    /\ calls[2].op = "copyTemplates"
    /\ join(projectPath, << "src", Sep, "stores" >>) \in calls[2].tree.dirs
    /\ calls[2].tree.files[join(projectPath, << "package.json" >>)]
           = PackageJsonContent(tv.projectName)

\* The files the repository's own tests look for in a created project.
requiredFiles ==
    { << "package.json" >>, << "tsconfig.json" >>, << "next.config.ts" >>,
      << "src", Sep, "app", Sep, "page.tsx" >>, << "src", Sep, "app", Sep, "layout.tsx" >>,
      << "src", Sep, "features", Sep, "auth", Sep, "auth.api.ts" >> }

\* A run with a project name and --yes that has ended with exit code 0.
YesRunSucceeded ==
    /\ opt.yes
    /\ opt.projectName # << >>
    /\ pc = "done"
    /\ exitCode = "0"

HasRequiredFiles ==
    /\ projectPath \in disk.dirs
    /\ \A f \in requiredFiles : join(projectPath, f) \in DOMAIN disk.files

\* C12 as stated: after a run with a project name and --yes that ends with
\* exit code 0 the target directory exists and holds package.json,
\* tsconfig.json, next.config.ts, src/app/page.tsx, src/app/layout.tsx and
\* src/features/auth/auth.api.ts.
C12_RequiredFiles_AsStated == YesRunSucceeded => HasRequiredFiles

\* C12, amended: the same, when no templates directory stands beside the
\* program's build output.
C12_RequiredFiles == (YesRunSucceeded /\ env.template = "none") => HasRequiredFiles

C12_Witness ==
    /\ YesRunSucceeded
    /\ env.template = "none"
    /\ env.existing = DemoApp
    /\ opt.projectName = DemoApp
    /\ HasRequiredFiles
    /\ join(projectPath, << "old.txt" >>) \notin DOMAIN disk.files

Said(tag) == \E i \in DOMAIN out : out[i].tag = tag

InstallFailed == Said("Dependencies installation failed")

\* C14: when the install step fails, materialization and substitution have
\* succeeded before it, the failure is printed as a warning with the install
\* command to run by hand (for npm, pnpm, yarn and bun "<pm> install"), the
\* run goes on to the next-steps message, no error is reported by
\* createProject or the action, and the run ends with exit code 0.
C14_InstallFailureIsAWarning ==
    InstallFailed =>
        /\ Said("Project structure created")
        /\ Said("Files generated")
        /\ Said("Project created successfully!")
        /\ Printed("Run:") = { getInstallCommand(tv.packageManager) }
        /\ tv.packageManager \in PackageManagers =>
               Printed("Run:") = { tv.packageManager \o << " ", "install" >> }
        /\ ~Said("Error creating project:")
        /\ ~Said("error.stack")
        /\ pc \in { "nextSteps", "done" }
        /\ exitCode # "1"
        /\ pc = "done" =>
            /\ exitCode = "0"
            /\ Said("Ready to start coding!")
            /\ Said("Next steps:")
            /\ Said("run")

C14_Witness ==
    /\ InstallFailed
    /\ tv.packageManager = << "yarn" >>
    /\ Printed("Run:") = { << "yarn", " ", "install" >> }
    /\ calls[Len(calls)].op = "execSync"
    /\ pc = "done"
    /\ exitCode = "0"
    /\ Said("Next steps:")

\* The catch of createProject has printed an error with its stack: a step
\* inside its try (copyTemplates, generateFiles) has thrown.
FsFailed == Said("error.stack")

LastOp == calls[Len(calls)].op

\* C15: when copyTemplates or generateFiles throws, the run stops at that
\* step (no later step starts, no success, install or next-steps line is
\* printed), the error and its stack are printed, the run ends with exit code
\* 1, and the disk keeps what was there at the failure: nothing written by an
\* earlier step is taken back and a removed directory is not restored.
C15_FsFailureIsFatal ==
    FsFailed =>
        /\ pc = "done"
        /\ exitCode = "1"
        /\ Said("Error creating project:")
        /\ LastOp \in { "copyTemplates", "generateFiles" }
        /\ ~Started("execSync")
        /\ ~Said("Project created successfully!")
        /\ ~Said("Dependencies installed")
        /\ ~Said("Ready to start coding!")
        /\ ~Said("Next steps:")
        /\ LastOp = "copyTemplates" =>
               /\ ~Started("generateFiles")
               /\ ~Said("Project structure created")
        /\ LastOp = "generateFiles" => ~Said("Files generated")
        /\ \A i \in DOMAIN calls :
               calls[i].op # "removeSync" =>
                   /\ calls[i].tree.dirs \subseteq disk.dirs
                   /\ DOMAIN calls[i].tree.files \subseteq DOMAIN disk.files
        /\ Started("removeSync") =>
               join(projectPath, << "old.txt" >>) \notin DOMAIN disk.files

C15_Witness ==
    /\ FsFailed
    /\ exitCode = "1"
    /\ Started("removeSync")
    /\ LastOp = "generateFiles"
    /\ env.template = "full"
    /\ join(projectPath, << "README.md" >>) \in DOMAIN disk.files
    /\ Includes(disk.files[join(projectPath, << "README.md" >>)], PackageManagerToken)
    /\ ~Includes(disk.files[join(projectPath, << "package.json" >>)], ProjectNameToken)
    /\ join(projectPath, << "old.txt" >>) \in DOMAIN InitialDisk(env).files

\* The place of a step in the order of createProject.
Rank(op) ==
    CASE op = "removeSync" -> 1
      [] op = "copyTemplates" -> 2
      [] op = "generateFiles" -> 3
      [] op = "execSync" -> 4

\* C16: the steps of one run start in the order removal, materialization,
\* substitution, installation, each at most once; a removal without -y starts
\* only after the overwrite confirmation was answered yes; substitution starts
\* only after materialization has completed, installation and the success
\* message come only after both have completed, and the next-steps message
\* only after the success message.
C16_StepsInOrder ==
    /\ \A i, j \in DOMAIN calls : i < j => Rank(calls[i].op) < Rank(calls[j].op)
    /\ (Started("removeSync") /\ ~skipPrompts) => Confirmed
    /\ Started("generateFiles") =>
           (Started("copyTemplates") /\ Said("Project structure created"))
    /\ Started("execSync") => (Started("generateFiles") /\ Said("Files generated"))
    /\ Said("Project created successfully!") =>
           /\ Said("Project structure created")
           /\ Said("Files generated")
           /\ ~FsFailed
    /\ Said("Dependencies installed") => Started("execSync")
    /\ Said("Next steps:") =>
           /\ Said("Project created successfully!")
           /\ autoInstall => Started("execSync")
           /\ pc = "done"

C16_Witness ==
    /\ pc = "done"
    /\ Confirmed
    /\ Len(calls) = 4
    /\ calls[1].op = "removeSync"
    /\ calls[2].op = "copyTemplates"
    /\ calls[3].op = "generateFiles"
    /\ calls[4].op = "execSync"
    /\ Said("Dependencies installed")
    /\ Said("Next steps:")

\* The step taken is a call of generateFiles.
GenerateFilesCalled ==
    /\ Len(calls') = Len(calls) + 1
    /\ calls'[Len(calls')].op = "generateFiles"

\* The two files generateFiles is about.
SubstitutedPaths ==
    { join(projectPath, << "package.json" >>), join(projectPath, << "README.md" >>) }

\* C17: a call of generateFiles leaves the directories of the disk and the set
\* of its files as they were (a missing package.json or README.md is not
\* created, nothing is removed) and changes the content of no file other than
\* package.json and README.md directly under the target.
C17_GenerateFilesFrame ==
    [][GenerateFilesCalled =>
          /\ disk'.dirs = disk.dirs
          /\ DOMAIN disk'.files = DOMAIN disk.files
          /\ \A f \in DOMAIN disk.files \ SubstitutedPaths : disk'.files[f] = disk.files[f]]_vars

C17_Witness ==
    /\ Len(calls) = 3
    /\ calls[1].op = "generateFiles"
    /\ calls[1].tree.dirs = { }
    /\ DOMAIN calls[1].tree.files = { }
    /\ calls[2].op = "copyTemplates"
    /\ calls[3].op = "generateFiles"
    /\ env.template = "full"
    /\ calls[3].tree.files[join(projectPath, << "README.md" >>)]
           # calls[2].tree.files[join(projectPath, << "README.md" >>)]
    /\ calls[3].tree.files[join(projectPath, << "src", Sep, "app", Sep, "page.tsx" >>)]
           = << "<template page.tsx>" >>

\* C18: after a call of generateFiles, with a project name of letters, digits
\* and hyphens and one of the four package managers, neither package.json nor
\* README.md under the target, when it exists, holds {{projectName}} or
\* {{packageManager}}.
C18_BothTokensReplaced ==
    \A i \in DOMAIN calls :
        (calls[i].op = "generateFiles" /\ ValidVariables(tv)) =>
            \A f \in SubstitutedPaths \cap DOMAIN calls[i].tree.files :
                /\ ~Includes(calls[i].tree.files[f], ProjectNameToken)
                /\ ~Includes(calls[i].tree.files[f], PackageManagerToken)

\* C19: when -p is not given, the package manager createProject gets is the
\* one detectPackageManager finds: by the lock files of the working
\* directory, then by the package managers installed, npm otherwise.
C19_PackageManagerDetected ==
    (opt.packageManager = << >> /\ pc # "action") =>
        tv.packageManager = detectPackageManager(InitialDisk(env), Cwd, env.installed)

\* C20: the project name createProject, copyTemplates and generateFiles get
\* is not empty and holds letters, digits and hyphens only, whether it came
\* from the command line, from the prompt or from the default of -y.
C20_ProjectNameValid ==
    pc \notin { "action", "projectName" } => MatchesNamePattern(tv.projectName)

\* The places of a prompt in the list of prompts shown.
Asked(prompt) == { i \in DOMAIN shown : shown[i].prompt = prompt }

\* C21: without -y the package manager prompt is shown exactly when -p is
\* not given, the project name prompt exactly when no name is given and the
\* overwrite confirmation exactly when the target exists before the run; each
\* is shown at most once, in this order; a value given on the command line is
\* the one createProject gets.
C21_PromptsExactlyWhenNeeded ==
    ~opt.yes =>
        /\ Asked("packageManager") # { } => opt.packageManager = << >>
        /\ Asked("projectName") # { } => opt.projectName = << >>
        /\ Asked("overwrite") # { } => existsSync(InitialDisk(env), projectPath)
        /\ pc # "action" =>
            /\ opt.packageManager = << >> => Asked("packageManager") # { }
            /\ opt.packageManager # << >> => tv.packageManager = opt.packageManager
        /\ pc \notin { "action", "projectName" } =>
            /\ opt.projectName = << >> => Asked("projectName") # { }
            /\ opt.projectName # << >> => tv.projectName = opt.projectName
        /\ pc \notin { "action", "projectName", "createProject" } =>
            (existsSync(InitialDisk(env), projectPath) => Asked("overwrite") # { })
        /\ \A q \in { "packageManager", "projectName", "overwrite" } : Cardinality(Asked(q)) <= 1
        /\ \A i \in Asked("packageManager") : \A j \in Asked("projectName") : i < j
        /\ \A i \in Asked("projectName") : \A j \in Asked("overwrite") : i < j

C21_Witness ==
    /\ ~opt.yes
    /\ opt.packageManager = << >>
    /\ opt.projectName = << >>
    /\ Len(shown) = 3
    /\ shown[1].prompt = "packageManager"
    /\ shown[2].prompt = "projectName"
    /\ shown[3].prompt = "overwrite"
    /\ env.existing = DemoApp
    /\ tv.projectName = DemoApp

\* The install and run commands of the four supported package managers.
SupportedCommands ==
    { getInstallCommand(p) : p \in PackageManagers }
        \cup { getRunCommand(p, << "dev" >>) : p \in PackageManagers }

\* C22: a package manager value that is none of npm, pnpm, yarn, bun is not
\* given the commands of a supported one: the README.md that copyTemplates
\* writes from the manifest of getProjectStructure holds none of them.
C22_NoFallbackCommands ==
    \A i \in DOMAIN calls :
        (/\ calls[i].op = "copyTemplates"
         /\ env.template = "none"
         /\ tv.packageManager \notin PackageManagers) =>
            \A c \in SupportedCommands :
                ~Includes(calls[i].tree.files[join(projectPath, << "README.md" >>)], c)

HasToken(s) == Includes(s, ProjectNameToken) \/ Includes(s, PackageManagerToken)

\* package.json and README.md of a tree, where they exist.
Substituted(t) == [f \in SubstitutedPaths \cap DOMAIN t.files |-> t.files[f]]

\* Calls i and i + 1 are both calls of generateFiles.
GeneratedTwice(i) ==
    /\ i + 1 \in DOMAIN calls
    /\ calls[i].op = "generateFiles"
    /\ calls[i + 1].op = "generateFiles"

\* C24 as stated: when neither the project name nor the package manager
\* holds a placeholder token, a second call of generateFiles leaves
\* package.json and README.md as the first call left them.
C24_SubstituteTwice_AsStated ==
    \A i \in DOMAIN calls :
        (GeneratedTwice(i) /\ ~HasToken(tv.projectName) /\ ~HasToken(tv.packageManager))
            => Substituted(calls[i + 1].tree) = Substituted(calls[i].tree)

\* The tokens generateFiles replaces are gone from the two files of the tree:
\* {{projectName}} from package.json, both tokens from README.md.
NothingLeftToReplace(t) ==
    \A f \in DOMAIN Substituted(t) :
        /\ ~Includes(t.files[f], ProjectNameToken)
        /\ f = join(projectPath, << "README.md" >>) => ~Includes(t.files[f], PackageManagerToken)

\* C24, amended: when the first call of generateFiles leaves no token it
\* replaces in the two files, a second call leaves them as the first did.
C24_SubstituteTwice ==
    \A i \in DOMAIN calls :
        (GeneratedTwice(i) /\ NothingLeftToReplace(calls[i].tree))
            => Substituted(calls[i + 1].tree) = Substituted(calls[i].tree)

C24_Witness ==
    /\ Len(calls) = 3
    /\ calls[1].op = "copyTemplates"
    /\ GeneratedTwice(2)
    /\ env.template = "full"
    /\ ValidVariables(tv)
    /\ DOMAIN Substituted(calls[2].tree) = SubstitutedPaths
    /\ Substituted(calls[2].tree) # Substituted(calls[1].tree)
    /\ NothingLeftToReplace(calls[2].tree)
    /\ Substituted(calls[3].tree) = Substituted(calls[2].tree)

\* The step taken is a call of copyTemplates that returns.
CopyTemplatesCalled ==
    /\ Len(calls') = Len(calls) + 1
    /\ calls'[Len(calls')].op = "copyTemplates"
    /\ ~(pc' = "done" /\ exitCode' = "1")

\* The files of disk e that disk d does not hold with the same content, and
\* the directories of e that d does not hold.
WrittenFiles(d, e) ==
    { f \in DOMAIN e.files : f \notin DOMAIN d.files \/ e.files[f] # d.files[f] }
NewDirs(d, e) == e.dirs \ d.dirs

\* Where the manifest and the placeholders go below the target.
ManifestPaths ==
    { join(projectPath, getProjectStructure(tv)[i].path) : i \in DOMAIN getProjectStructure(tv) }
KeepPaths ==
    { join(join(projectPath, emptyDirs[i]), << ".git", "keep" >>) : i \in DOMAIN emptyDirs }
PublicDir == join(projectPath, << "public" >>)

\* C25: a call of copyTemplates leaves the target directory and its ancestors
\* in place.  When the templates directory exists at the start, every file it
\* writes and every directory it makes below the target is the copy of an
\* entry of the templates directory: no placeholder, no public directory and
\* no manifest file is written.  When it does not exist, the files written are
\* files of the manifest and placeholders, all of them are there afterwards,
\* and the public directory exists with no file in it.
C25_OneStrategy ==
    [][CopyTemplatesCalled =>
          /\ AncestorsOrSelf(projectPath) \subseteq disk'.dirs
          /\ IF existsSync(disk, templatesPath)
             THEN /\ \A f \in WrittenFiles(disk, disk') :
                        \E q \in DOMAIN disk.files :
                            /\ IsUnder(q, templatesPath)
                            /\ f = Rebase(q, templatesPath, projectPath)
                            /\ disk'.files[f] = disk.files[q]
                  /\ \A g \in NewDirs(disk, disk') \ AncestorsOrSelf(projectPath) :
                        \E q \in disk.dirs :
                            IsUnder(q, templatesPath) /\ g = Rebase(q, templatesPath, projectPath)
                  /\ KeepPaths \cap WrittenFiles(disk, disk') = { }
                  /\ PublicDir \notin NewDirs(disk, disk')
             ELSE /\ WrittenFiles(disk, disk') \subseteq ManifestPaths \cup KeepPaths
                  /\ ManifestPaths \cup KeepPaths \subseteq DOMAIN disk'.files
                  /\ PublicDir \in disk'.dirs
                  /\ \A f \in DOMAIN disk'.files : ~IsUnder(f, PublicDir)]_vars

C25_Witness ==
    /\ Len(calls) >= 1
    /\ calls[1].op = "copyTemplates"
    /\ env.template = "full"
    /\ projectPath \in calls[1].tree.dirs
    /\ calls[1].tree.files[join(projectPath, << "package.json" >>)] = TemplateFiles[<< "package.json" >>]
    /\ join(projectPath, << "tsconfig.json" >>) \notin DOMAIN calls[1].tree.files
    /\ KeepPaths \cap DOMAIN calls[1].tree.files = { }
    /\ PublicDir \notin calls[1].tree.dirs

\* The tree below the target is the manifest, the placeholders and the
\* public directory, with the directories that lead to them, and nothing
\* else: the placeholders are empty and every manifest file that the
\* substitution pass does not touch has the manifest's content.
ExactTree ==
    LET t == Tree(disk, projectPath)
        structure == getProjectStructure(tv)
    IN /\ DOMAIN t.files = ManifestPaths \cup KeepPaths
       /\ \A f \in KeepPaths : t.files[f] = << >>
       /\ \A i \in DOMAIN structure :
              join(projectPath, structure[i].path) \notin SubstitutedPaths =>
                  t.files[join(projectPath, structure[i].path)] = structure[i].content
       /\ t.dirs = { g \in UNION { AncestorsOrSelf(dirname(f)) : f \in DOMAIN t.files } :
                        IsUnder(g, projectPath) }
                    \cup { projectPath, PublicDir }

\* C26 as stated: after a run on the manifest path that ended with exit code
\* 0 and created the project, the tree is exactly the manifest, the
\* placeholders and the public directory.
C26_ExactTree_AsStated ==
    (pc = "done" /\ exitCode = "0" /\ Generated /\ env.template = "none") => ExactTree

\* C26, amended: the same, from the end of the substitution pass on, as long
\* as the install step has not been started (with -y it never is).
C26_ExactTree ==
    (Generated /\ env.template = "none" /\ ~Started("execSync")) => ExactTree

C26_Witness ==
    /\ pc = "done"
    /\ exitCode = "0"
    /\ opt.yes
    /\ env.template = "none"
    /\ env.existing = DemoApp
    /\ tv.projectName = DemoApp
    /\ Started("removeSync")
    /\ Generated
    /\ ExactTree
    /\ join(projectPath, << "old.txt" >>) \in DOMAIN InitialDisk(env).files

Reverse(s) == [i \in 1..Len(s) |-> s[Len(s) + 1 - i]]

\* C27: no two entries of the manifest have the same path, no entry is the
\* placeholder of an empty directory of the list or lies in one, so the
\* manifest written last entry first on the disk of the start gives the disk
\* it gives written first entry first, and after copyTemplates has written it
\* every placeholder is still empty.
C27_ManifestKeyedByPath ==
    LET structure == getProjectStructure(tv)
        d == WriteEmptyDirs(ensureDirSync(disk, projectPath), projectPath, emptyDirs)
        paths == { structure[i].path : i \in DOMAIN structure }
        empty == { emptyDirs[k] : k \in DOMAIN emptyDirs }
        keep == { join(g, << ".git", "keep" >>) : g \in empty }
    IN /\ Cardinality(paths) = Len(structure)
       /\ paths \cap keep = { }
       /\ \A p \in paths : \A g \in empty : ~IsUnder(p, g)
       /\ calls = << >> =>
              WriteFiles(d, projectPath, Reverse(structure)) = WriteFiles(d, projectPath, structure)
       /\ \A c \in DOMAIN calls :
              (calls[c].op = "copyTemplates" /\ env.template = "none") =>
                  \A f \in KeepPaths : calls[c].tree.files[f] = << >>

C27_Witness ==
    /\ Len(calls) = 2
    /\ calls[1].op = "copyTemplates"
    /\ calls[2].op = "copyTemplates"
    /\ env.template = "none"
    /\ Cardinality(ManifestPaths) = Len(getProjectStructure(tv))
    /\ Cardinality(KeepPaths) = Len(emptyDirs)
    /\ \A f \in KeepPaths : calls[2].tree.files[f] = << >>

Attempts(op) == Cardinality({ i \in DOMAIN calls : calls[i].op = op })

\* C28: in one run the removal of the existing target, copyTemplates,
\* generateFiles and the install command are each started at most once: an
\* operation that failed is not started again.
C28_AtMostOnce ==
    \A op \in { "removeSync", "copyTemplates", "generateFiles", "execSync" } : Attempts(op) <= 1

C28_Witness ==
    /\ pc = "done"
    /\ InstallFailed
    /\ Started("removeSync")
    /\ Attempts("removeSync") = 1
    /\ Attempts("copyTemplates") = 1
    /\ Attempts("generateFiles") = 1
    /\ Attempts("execSync") = 1

\* C29: the install command is started only without -y and after 'Files
\* generated', and in every run without -y that gets to the next steps it was
\* started; the next steps name the install command exactly when no install
\* was started, and always 'cd <projectName>' and the dev command of the
\* package manager (for npm, pnpm, yarn, bun: npm run dev, pnpm dev, yarn dev,
\* bun run dev).
C29_InstallAndNextSteps ==
    /\ Started("execSync") => (~opt.yes /\ Said("Files generated"))
    /\ (pc \in { "nextSteps", "done" } /\ Said("Files generated")) =>
           (Started("execSync") <=> ~opt.yes)
    /\ Said("install") => Said("Next steps:")
    /\ Said("Next steps:") =>
           /\ Said("install") <=> ~Started("execSync")
           /\ Said("install") => Printed("install") = { getInstallCommand(tv.packageManager) }
           /\ Printed("cd") = { tv.projectName }
           /\ Printed("run") = { getRunCommand(tv.packageManager, << "dev" >>) }
           /\ tv.packageManager \in PackageManagers =>
                  Printed("run") = { devCmd(tv.packageManager) }

C29_Witness ==
    /\ pc = "done"
    /\ ~opt.yes
    /\ Started("execSync")
    /\ InstallFailed
    /\ Said("Next steps:")
    /\ ~Said("install")
    /\ Printed("cd") = { DemoApp }
    /\ Printed("run") = { << "pnpm", " ", "dev" >> }

\* The cookie is there and its token's time is not over.
SessionGood(value) == value # << >> /\ value # StaleToken

\* C30: a request to a path outside the public routes passes when the session
\* cookie is present and not expired and is redirected to /login otherwise; a
\* request to a public route is redirected to / when the cookie is present
\* and not expired and passes otherwise.
C30_ProxyDecides ==
    \A i \in DOMAIN out :
        out[i].tag = "proxy" =>
            out[i].text =
                (IF out[i].pathname \in publicRoutes
                 THEN (IF SessionGood(out[i].cookie) THEN << "redirect", Sep >> ELSE << "next" >>)
                 ELSE (IF SessionGood(out[i].cookie) THEN << "next" >>
                       ELSE << "redirect", Sep, "login" >>))

====
